---- MODULE Spec2Model ----
(***************************************************************************)
(* libredstone NBT codec and tag tree (src/src/nbt.c).                     *)
(*                                                                         *)
(* The heap is a sequence of RSTag records; an RSTag* is an index into it  *)
(* and NULL is 0.  A freed tag keeps its slot with alive = FALSE, so a     *)
(* pointer is never reused.  The parser is the recursive descent of        *)
(* _rs_nbt_parse_tag over a byte buffer, threading the cursor              *)
(* (read_head, left) and the heap.                                         *)
(***************************************************************************)
EXTENDS Integers, Sequences, FiniteSets, TLC

VARIABLES
    heap,         \* every RSTag ever allocated, by pointer
    held,         \* per tag: references owned by the caller of the API
    doc,          \* the RSNBT document, or NoDoc
    op,           \* the last API call made (history, for the properties)
    input,        \* the decompressed buffer handed to rs_nbt_parse
    res,          \* outcome of rs_nbt_parse on input
    trunc,        \* outcome of rs_nbt_parse on input without its last byte
    strdup_null   \* what rs_strdup(NULL) does in this build

vars == <<heap, held, doc, op, input, res, trunc, strdup_null>>

(***************************************************************************)
(* Bounds of the model.                                                    *)
(***************************************************************************)
MaxLen == 6        \* longest buffer enumerated byte by byte
MaxEntries == 2    \* entries of a generated root compound
MaxPayload == 9    \* longest payload of a generated scalar document
MaxTags == 2       \* tags on the heap before the caller stops allocating
MaxRefcount == 3   \* largest reference count a tag is driven to

(***************************************************************************)
(* RSTagType (nbt.h); the wire values of the type byte.                    *)
(***************************************************************************)
RS_TAG_END == 0
RS_TAG_BYTE == 1
RS_TAG_SHORT == 2
RS_TAG_INT == 3
RS_TAG_LONG == 4
RS_TAG_STRING == 8
RS_TAG_COMPOUND == 10

NULL == 0
NoString == <<-1>>     \* a NULL char*
NoDoc == [root_type |-> -1, root_name |-> NoString, root |-> NULL]

(***************************************************************************)
(* C strings: strlen, strdup and strcmp stop at the first NUL byte.        *)
(***************************************************************************)
RECURSIVE CStr(_)
CStr(bytes) ==
    IF bytes = <<>> \/ Head(bytes) = 0 THEN <<>>
    ELSE <<Head(bytes)>> \o CStr(Tail(bytes))

rs_strdup(str) == IF str = NoString THEN NoString ELSE CStr(str)

\* rs_strdup(NULL): the callee is given no string to measure; the build either
\* hands NULL back or dereferences it and the process dies.
rs_strdup_aborts(str) == str = NoString /\ strdup_null = "abort"

strcmp_eq(a, b) == CStr(a) = CStr(b)

(***************************************************************************)
(* RSList (list.h): an ordered list of cells, here a sequence of nodes.    *)
(***************************************************************************)
rs_list_push(list, node) == Append(list, node)

rs_list_remove(list, i) ==
    [j \in 1..(Len(list) - 1) |-> IF j < i THEN list[j] ELSE list[j + 1]]

(***************************************************************************)
(* Tags.                                                                   *)
(***************************************************************************)
\* bytes of the integer member of the union a tag of this type uses
Width(type) ==
    CASE type = RS_TAG_BYTE -> 1
      [] type = RS_TAG_SHORT -> 2
      [] type = RS_TAG_INT -> 4
      [] type = RS_TAG_LONG -> 8
      [] OTHER -> 0

\* An int64_t is its two's-complement image, eight bytes, most significant
\* first; a narrower integer is the image of its own width.
SignExtend(bytes, n) ==
    LET fill == IF bytes # <<>> /\ bytes[1] >= 128 THEN 255 ELSE 0
    IN  [i \in 1..(n - Len(bytes)) |-> fill] \o bytes

Narrow(val, n) == SubSeq(val, Len(val) - n + 1, Len(val))

\* rs_new0: every member of the union is zero
RSTag(type) ==
    [refcount |-> 1, type |-> type, alive |-> TRUE,
     int |-> [i \in 1..Width(type) |-> 0], string |-> NoString,
     compound |-> <<>>]

RSTagCompoundNode(key, value) == [key |-> key, value |-> value]

rs_tag_new(h, type) == Append(h, RSTag(type))

rs_tag_ref(h, self) == [h EXCEPT ![self].refcount = @ + 1]

RECURSIVE rs_tag_unref(_, _)
RECURSIVE _rs_tag_free(_, _)
RECURSIVE FreeCells(_, _, _)

\* the loop of _rs_tag_free over the cells of a compound
FreeCells(h, self, i) ==
    IF i > Len(h[self].compound) THEN h
    ELSE FreeCells(rs_tag_unref(h, h[self].compound[i].value), self, i + 1)

_rs_tag_free(h, self) ==
    LET h1 == IF h[self].type = RS_TAG_COMPOUND THEN FreeCells(h, self, 1) ELSE h
    IN  [h1 EXCEPT ![self].alive = FALSE,
                   ![self].string = NoString,
                   ![self].compound = <<>>]

\* rs_assert(self->refcount > 0) stops a second release
rs_tag_unref(h, self) ==
    IF h[self].refcount = 0 THEN h
    ELSE LET h1 == [h EXCEPT ![self].refcount = @ - 1]
         IN  IF h1[self].refcount = 0 THEN _rs_tag_free(h1, self) ELSE h1

\* the int64_t is narrowed to the member of the tag's type
rs_tag_set_integer(h, self, val) ==
    [h EXCEPT ![self].int = Narrow(val, Width(h[self].type))]

rs_tag_get_integer(h, self) == SignExtend(h[self].int, 8)

rs_tag_set_string(h, self, str) == [h EXCEPT ![self].string = rs_strdup(str)]

\* index of the first cell whose key compares equal, 0 when there is none
FindCell(list, key) ==
    LET hits == {i \in 1..Len(list) : strcmp_eq(list[i].key, key)}
    IN  IF hits = {} THEN 0 ELSE CHOOSE i \in hits : \A j \in hits : i <= j

rs_tag_compound_get(h, self, key) ==
    LET cell == FindCell(h[self].compound, key)
    IN  IF cell = 0 THEN NULL ELSE h[self].compound[cell].value

rs_tag_compound_delete(h, self, key) ==
    LET cell == FindCell(h[self].compound, key)
    IN  IF cell # 0
        THEN [h EXCEPT ![self].compound = rs_list_remove(@, cell)]
        ELSE h

\* the value of an existing entry changed where it stands
rs_tag_compound_set_in_place(h, self, key, value) ==
    LET cell == FindCell(h[self].compound, key)
        h2 == rs_tag_ref(h, value)
        node == RSTagCompoundNode(rs_strdup(key), value)
    IN  IF cell # 0
        THEN [h2 EXCEPT ![self].compound[cell].value = value]
        ELSE [h2 EXCEPT ![self].compound = rs_list_push(@, node)]

\* the new entry pushed without looking for an old one
rs_tag_compound_set_no_delete(h, self, key, value) ==
    LET h2 == rs_tag_ref(h, value)
        node == RSTagCompoundNode(rs_strdup(key), value)
    IN  [h2 EXCEPT ![self].compound = rs_list_push(@, node)]

rs_tag_compound_set(h, self, key, value) ==
    LET h1 == rs_tag_compound_delete(h, self, key)
        h2 == rs_tag_ref(h1, value)
        node == RSTagCompoundNode(rs_strdup(key), value)
    IN  [h2 EXCEPT ![self].compound = rs_list_push(@, node)]

(***************************************************************************)
(* The cursor of a parse: read_head as an offset into the buffer, left,    *)
(* the heap, and a record of every read made, every cursor value and      *)
(* every return of _rs_nbt_parse_tag.                                      *)
(***************************************************************************)
\* left is a uint32_t.  It is kept here as the number it would be without
\* the wrap: a negative left stands for the huge value a subtraction below
\* zero leaves, and LeftBelow compares it as the unsigned value it is.
Cursor(h, size) ==
    [heap |-> h, pos |-> 0, left |-> size, aborted |-> FALSE,
     reads |-> <<>>, cursor |-> <<[pos |-> 0, left |-> size]>>,
     calls |-> <<>>]

\* *lenp < n
LeftBelow(st, n) == st.left >= 0 /\ st.left < n

\* a read of n bytes at read_head + off
Read(st, off, n) ==
    [st EXCEPT !.reads = Append(@, [at |-> st.pos + off, n |-> n])]

\* *datap += n; *lenp -= n;
Advance(st, n) ==
    LET p == st.pos + n
        l == st.left - n
    IN  [st EXCEPT !.pos = p, !.left = l,
                   !.cursor = Append(@, [pos |-> p, left |-> l])]

\* the byte at read_head + off; outside the buffer the value is whatever
\* lies there
ByteAt(data, st, off) ==
    IF st.pos + off + 1 \in 1..Len(data) THEN data[st.pos + off + 1] ELSE 0

\* the n bytes at read_head, in buffer order (most significant first)
BigEndian(data, st, n) == [i \in 1..n |-> ByteAt(data, st, i - 1)]

\* a uint16_t read at read_head, as a number
rs_endian_uint16(data, st) == ByteAt(data, st, 0) * 256 + ByteAt(data, st, 1)

_rs_nbt_parse_string(data, st) ==
    IF LeftBelow(st, 2) THEN [st |-> st, str |-> NoString]
    ELSE LET st1 == Read(st, 0, 2)
             strlen == rs_endian_uint16(data, st)
         IN  IF LeftBelow(st, 2 + strlen) THEN [st |-> st1, str |-> NoString]
             ELSE [st |-> Advance(Read(st1, 2, strlen), 2 + strlen),
                   str |-> [i \in 1..strlen |-> ByteAt(data, st, 1 + i)]]

\* case RS_TAG_BYTE .. RS_TAG_LONG of _rs_nbt_parse_tag: n bytes, big-endian
ParseInteger(data, st, ret, n) ==
    IF LeftBelow(st, n) THEN [st |-> st, tag |-> NULL]
    ELSE LET st1 == Read(st, 0, n)
             val == SignExtend(BigEndian(data, st, n), 8)
             h == rs_tag_set_integer(st.heap, ret, val)
         IN  [st |-> Advance([st1 EXCEPT !.heap = h], n), tag |-> ret]

\* rs_tag_set_string(ret, string); return ret;  with r what
\* _rs_nbt_parse_string gave, NULL included
SetParsedString(r, ret) ==
    IF rs_strdup_aborts(r.str)
    THEN [st |-> [r.st EXCEPT !.aborted = TRUE], tag |-> NULL]
    ELSE [st |-> [r.st EXCEPT !.heap = rs_tag_set_string(@, ret, r.str)],
          tag |-> ret]

\* case RS_TAG_STRING of _rs_nbt_parse_tag: the result of
\* _rs_nbt_parse_string goes to rs_tag_set_string unchecked
ParseStringTag(data, st, ret) ==
    SetParsedString(_rs_nbt_parse_string(data, st), ret)

RECURSIVE _rs_nbt_parse_tag(_, _, _)
RECURSIVE ParseCompound(_, _, _)

\* a compound that ends where the buffer ends, with no End byte
LoopExitImplicitEnd(st, ret) == [st |-> st, tag |-> ret]

\* while (*lenp > 0) is over: "if we make it here, it's a failure"
LoopExit(st, ret) == [st |-> st, tag |-> NULL]

\* the child t of an entry: if (!tmptag) break; otherwise it is set under
\* key, released, and the loop goes on
ParseChild(data, t, key, ret) ==
    IF t.st.aborted \/ t.tag = NULL THEN [st |-> t.st, tag |-> NULL]
    ELSE LET h1 == rs_tag_compound_set(t.st.heap, ret, key, t.tag)
             h2 == rs_tag_unref(h1, t.tag)
         IN  ParseCompound(data, [t.st EXCEPT !.heap = h2], ret)

\* the key s of an entry: if (!string) break; otherwise the child is parsed
ParseEntry(data, subtype, s, ret) ==
    IF s.str = NoString THEN [st |-> s.st, tag |-> NULL]
    ELSE ParseChild(data, _rs_nbt_parse_tag(subtype, data, s.st), s.str, ret)

\* the type byte of an entry has been read, st1 is the cursor behind it
ParseSubtype(data, subtype, st1, ret) ==
    IF subtype = RS_TAG_END THEN [st |-> st1, tag |-> ret]
    ELSE ParseEntry(data, subtype, _rs_nbt_parse_string(data, st1), ret)

\* case RS_TAG_COMPOUND of _rs_nbt_parse_tag: the while loop
ParseCompound(data, st, ret) ==
    IF st.left = 0 THEN LoopExit(st, ret)
    ELSE ParseSubtype(data, ByteAt(data, st, 0), Advance(Read(st, 0, 1), 1), ret)

\* switch (type), entered with the new tag ret on the heap of st0
ParsePayload(type, data, st0, ret) ==
    CASE type = RS_TAG_BYTE -> ParseInteger(data, st0, ret, 1)
      [] type = RS_TAG_SHORT -> ParseInteger(data, st0, ret, 2)
      [] type = RS_TAG_INT -> ParseInteger(data, st0, ret, 4)
      [] type = RS_TAG_LONG -> ParseInteger(data, st0, ret, 8)
      [] type = RS_TAG_STRING -> ParseStringTag(data, st0, ret)
      [] type = RS_TAG_COMPOUND -> ParseCompound(data, st0, ret)
      [] OTHER -> [st |-> st0, tag |-> NULL]

\* how _rs_nbt_parse_tag, entered at cursor st, returns r: a case that
\* returned ret, or the failure exit, which releases ret and returns NULL
Returned(type, st, r, ret) ==
    LET call == [type |-> type, from |-> st.pos, left |-> st.left,
                 to |-> r.st.pos, tag |-> r.tag]
        st1 == [r.st EXCEPT !.calls = Append(@, call)]
    IN  IF r.st.aborted THEN r
        ELSE IF r.tag # NULL THEN [st |-> st1, tag |-> ret]
        ELSE [st |-> [st1 EXCEPT !.heap = rs_tag_unref(@, ret)], tag |-> NULL]

_rs_nbt_parse_tag(type, data, st) ==
    Returned(type, st,
             ParsePayload(type, data, [st EXCEPT !.heap = rs_tag_new(@, type)],
                          Len(st.heap) + 1),
             Len(st.heap) + 1)

rs_nbt_free(h, self) ==
    IF self.root # NULL THEN rs_tag_unref(h, self.root) ELSE h

\* the outcome of a parse that has not been made
Idle == [status |-> "idle", doc |-> NoDoc, st |-> Cursor(<<>>, 0), size |-> 0,
         root |-> NULL]

Outcome(status, d, st, size, root) ==
    [status |-> status, doc |-> d, st |-> st, size |-> size, root |-> root]

\* a root that is accepted with bytes left behind it
RootRejectedLenient(t) == t.tag = NULL

\* if (self->root == NULL || left != 0)
RootRejected(t) == t.tag = NULL \/ t.st.left # 0

\* the root tag t has been parsed: lines 243-252
ParsedRoot(t, self, size) ==
    IF t.st.aborted THEN Outcome("abort", NoDoc, t.st, size, NULL)
    ELSE IF RootRejected(t)
    THEN Outcome("fail", NoDoc,
                 [t.st EXCEPT !.heap = rs_nbt_free(@, [self EXCEPT !.root = t.tag])],
                 size, t.tag)
    ELSE Outcome("ok", [self EXCEPT !.root = t.tag], t.st, size, t.tag)

\* the root name n has been parsed: lines 235-243
ParsedName(expanded, root_type, n, size) ==
    IF n.str = NoString THEN Outcome("fail", NoDoc, n.st, size, NULL)
    ELSE ParsedRoot(_rs_nbt_parse_tag(root_type, expanded, n.st),
                    [root_type |-> root_type, root_name |-> n.str, root |-> NULL],
                    size)

\* expanded is what rs_decompress produced
rs_nbt_parse(h, expanded) ==
    LET size == Len(expanded)
        st0 == Cursor(h, size)
    IN  IF size < 4 THEN Outcome("fail", NoDoc, st0, size, NULL)
        ELSE ParsedName(expanded, ByteAt(expanded, st0, 0),
                        _rs_nbt_parse_string(expanded, Advance(Read(st0, 0, 1), 1)),
                        size)

rs_nbt_get_name(self) == CStr(self.root_name)

rs_nbt_get_root(self) == self.root

\* the old root released before the new one is taken
rs_nbt_set_root_unref_first(h, self, root) ==
    LET h1 == IF self.root # NULL THEN rs_tag_unref(h, self.root) ELSE h
        h2 == IF root # NULL THEN rs_tag_ref(h1, root) ELSE h1
    IN  [heap |-> h2, doc |-> [self EXCEPT !.root = root]]

rs_nbt_set_root(h, self, root) ==
    LET h1 == IF root # NULL THEN rs_tag_ref(h, root) ELSE h
        h2 == IF self.root # NULL THEN rs_tag_unref(h1, self.root) ELSE h1
    IN  [heap |-> h2, doc |-> [self EXCEPT !.root = root]]

(***************************************************************************)
(* Inputs.                                                                 *)
(***************************************************************************)
\* bytes that are at once type bytes, string lengths and payload
Alphabet == {0, 1, 8, 10}

EnumBuffers == UNION {[1..n -> Alphabet] : n \in 0..MaxLen}

\* one entry of a compound payload: type byte, key, payload
EntryPool ==
    { <<1, 0, 0, 5>>,                        \* Byte "" = 5
      <<1, 0, 1, 97, 200>>,                  \* Byte "a" = -56
      <<1, 0, 2, 97, 0, 9>>,                 \* Byte "a\0" = 9
      <<8, 0, 1, 97, 0, 1, 120>>,            \* String "a" = "x"
      <<8, 0, 0>>,                           \* String "", payload missing
      <<10, 0, 1, 98, 0>>,                   \* Compound "b", empty
      <<10, 0, 1, 98, 1, 0, 1, 97, 7, 0>>,   \* Compound "b" { Byte "a" = 7 }
      <<5, 0, 0, 0, 0, 0, 0>> }              \* Float "": not implemented

RECURSIVE Entries(_)
Entries(n) ==
    IF n = 0 THEN {<<>>}
    ELSE Entries(n - 1) \cup {e \o f : e \in Entries(n - 1), f \in EntryPool}

CompoundBuffers ==
    {<<10, 0, 0>> \o e \o tail :
        e \in Entries(MaxEntries), tail \in {<<>>, <<0>>, <<0, 0>>}}

ScalarBuffers ==
    {<<t, 0, 0>> \o [i \in 1..n |-> IF i = 1 THEN b ELSE 1] :
        t \in {0, 1, 2, 3, 4, 5, 8}, n \in 0..MaxPayload, b \in {0, 127, 128}}

Buffers == EnumBuffers \cup CompoundBuffers \cup ScalarBuffers

\* documents the API caller opens
EmptyDoc == <<10, 0, 1, 100, 0>>                                  \* "d" {}
RepeatedKeyDoc == <<10, 0, 0, 1, 0, 1, 97, 5, 1, 0, 1, 97, 6, 0>> \* "" {a: 5, a: 6}
NestedDoc == <<10, 0, 1, 100, 10, 0, 1, 98, 1, 0, 1, 97, 7, 0, 0>> \* "d" {b: {a: 7}}

DocBuffers == {EmptyDoc, NestedDoc}

Keys == {<<97>>, <<98>>, <<99>>}    \* "a", "b", "c"
TwoKeys == {<<97>>, <<98>>}

\* op names the last call made; a set that found its key there is a
\* "replace", a delete that did a "remove", a set_root of the root itself a
\* "same_root"
NoOp == "none"

Tags == 1..Len(heap)

Alive(t) == t \in Tags /\ heap[t].alive

\* the tags reachable from t through compound entries, t included
RECURSIVE Reach(_, _)
Reach(h, t) ==
    {t} \cup UNION {Reach(h, h[t].compound[i].value) : i \in 1..Len(h[t].compound)}

(***************************************************************************)
(* The parser on every buffer: SpecParse.                                  *)
(***************************************************************************)
InitParse ==
    /\ input \in Buffers
    /\ strdup_null \in {"null", "abort"}
    /\ heap = <<>>
    /\ held = <<>>
    /\ doc = NoDoc
    /\ op = NoOp
    /\ res = Idle
    /\ trunc = Idle

\* rs_nbt_parse(input); on success the caller owns the document
Parse ==
    /\ res.status = "idle"
    /\ res' = rs_nbt_parse(<<>>, input)
    /\ heap' = res'.st.heap
    /\ held' = [t \in 1..Len(heap') |-> 0]
    /\ doc' = res'.doc
    /\ op' = "parse"
    /\ UNCHANGED <<input, trunc, strdup_null>>

\* rs_nbt_parse on the same buffer with its last byte removed
ParseTruncated ==
    /\ trunc.status = "idle"
    /\ input # <<>>
    /\ trunc' = rs_nbt_parse(<<>>, SubSeq(input, 1, Len(input) - 1))
    /\ UNCHANGED <<heap, held, doc, op, input, res, strdup_null>>

\* rs_nbt_free(doc)
NbtFree ==
    /\ doc # NoDoc
    /\ heap' = rs_nbt_free(heap, doc)
    /\ doc' = NoDoc
    /\ op' = "free"
    /\ UNCHANGED <<held, input, res, trunc, strdup_null>>

NextParse == Parse \/ ParseTruncated \/ NbtFree

SpecParse == InitParse /\ [][NextParse]_vars

(***************************************************************************)
(* The tag API under a caller that keeps to its contract: it releases only *)
(* references it owns, passes only live tags, and never attaches a         *)
(* compound beneath itself.                                                *)
(***************************************************************************)
\* no call below hands rs_strdup a NULL, so its choice is left at one value
Init ==
    /\ input = <<>>
    /\ strdup_null = "null"
    /\ heap = <<>>
    /\ held = <<>>
    /\ doc = NoDoc
    /\ op = NoOp
    /\ res = Idle
    /\ trunc = Idle

IsCompound(t) == Alive(t) /\ heap[t].type = RS_TAG_COMPOUND

\* entries of live compounds that point at t
RECURSIVE EntriesTo(_, _, _)
EntriesTo(h, t, c) ==
    IF c = 0 THEN 0
    ELSE EntriesTo(h, t, c - 1)
         + Cardinality({i \in 1..Len(h[c].compound) : h[c].compound[i].value = t})

\* references to t that have an owner: the caller, a compound entry, the
\* document
Holders(t) ==
    held[t] + EntriesTo(heap, t, Len(heap)) + (IF doc.root = t THEN 1 ELSE 0)

\* rs_nbt_parse of one of the buffers B, before any tag is made
OpenFrom(B) ==
    /\ heap = <<>>
    /\ res.status = "idle"
    /\ \E b \in B :
        /\ input' = b
        /\ res' = rs_nbt_parse(heap, b)
    /\ heap' = res'.st.heap
    /\ held' = [t \in 1..Len(heap') |-> 0]
    /\ doc' = res'.doc
    /\ op' = "parse"
    /\ UNCHANGED <<trunc, strdup_null>>

\* rs_tag_new(type); the caller owns the first reference
New ==
    /\ Len(heap) < MaxTags
    /\ \E type \in {RS_TAG_BYTE, RS_TAG_COMPOUND} :
        heap' = rs_tag_new(heap, type)
    /\ held' = Append(held, 1)
    /\ op' = "new"
    /\ UNCHANGED <<doc, input, res, trunc, strdup_null>>

\* rs_tag_ref(self)
Ref ==
    \E self \in Tags :
        /\ Alive(self)
        /\ heap[self].refcount < MaxRefcount
        /\ heap' = rs_tag_ref(heap, self)
        /\ held' = [held EXCEPT ![self] = @ + 1]
        /\ op' = "ref"
        /\ UNCHANGED <<doc, input, res, trunc, strdup_null>>

\* rs_tag_unref(self) of a reference the caller owns
Unref ==
    \E self \in Tags :
        /\ Alive(self)
        /\ held[self] > 0
        /\ heap' = rs_tag_unref(heap, self)
        /\ held' = [held EXCEPT ![self] = @ - 1]
        /\ op' = "unref"
        /\ UNCHANGED <<doc, input, res, trunc, strdup_null>>

\* what a caller may pass to rs_tag_compound_set
MaySet(self, value) ==
    /\ IsCompound(self)
    /\ Alive(value)
    /\ self \notin Reach(heap, value)

\* rs_tag_compound_set(self, key, value), key among K
SetIn(K) ==
    \E self \in Tags, key \in K, value \in Tags :
        /\ MaySet(self, value)
        /\ heap[value].refcount < MaxRefcount
        /\ heap' = rs_tag_compound_set(heap, self, key, value)
        /\ op' = IF rs_tag_compound_get(heap, self, key) # NULL
                 THEN "replace" ELSE "set"
        /\ UNCHANGED <<held, doc, input, res, trunc, strdup_null>>

\* rs_tag_compound_delete(self, key), key among K
DeleteIn(K) ==
    \E self \in Tags, key \in K :
        /\ IsCompound(self)
        /\ heap' = rs_tag_compound_delete(heap, self, key)
        /\ op' = IF rs_tag_compound_get(heap, self, key) # NULL
                 THEN "remove" ELSE "delete"
        /\ UNCHANGED <<held, doc, input, res, trunc, strdup_null>>

\* rs_nbt_set_root(doc, root), root possibly NULL
SetRoot ==
    /\ doc # NoDoc
    /\ \E root \in Tags \cup {NULL} :
        /\ root # NULL => Alive(root) /\ heap[root].refcount < MaxRefcount
        /\ LET r == rs_nbt_set_root(heap, doc, root)
           IN  /\ heap' = r.heap
               /\ doc' = r.doc
        /\ op' = IF root = doc.root THEN "same_root" ELSE "set_root"
    /\ UNCHANGED <<held, input, res, trunc, strdup_null>>

Open == OpenFrom(DocBuffers)

CompoundSet == SetIn(TwoKeys)

CompoundDelete == DeleteIn(TwoKeys)

Next ==
    \/ Open
    \/ New
    \/ Ref
    \/ Unref
    \/ CompoundSet
    \/ CompoundDelete
    \/ SetRoot
    \/ NbtFree

Spec == Init /\ [][Next]_vars

\* the compound operations alone, on the compounds of a parsed document: one
\* that repeats a key, one that nests a compound
OpenCompounds == OpenFrom({RepeatedKeyDoc, NestedDoc})

CompoundSet3 == SetIn(Keys)

CompoundDelete3 == DeleteIn(Keys)

NextCompound == OpenCompounds \/ CompoundSet3 \/ CompoundDelete3

SpecCompound == Init /\ [][NextCompound]_vars

\* the document and the references to its tags, without compound edits
NextDoc == Open \/ New \/ Ref \/ Unref \/ SetRoot \/ NbtFree

SpecDoc == Init /\ [][NextDoc]_vars

(***************************************************************************)
(* Properties of the parser, under SpecParse.                              *)
(***************************************************************************)
Parsed == res.status # "idle"

Calls == {res.st.calls[i] : i \in 1..Len(res.st.calls)}

\* the uint16_t length prefix at offset at of the input
PrefixAt(at) ==
    (IF at + 1 \in 1..Len(input) THEN input[at + 1] ELSE 0) * 256
    + (IF at + 2 \in 1..Len(input) THEN input[at + 2] ELSE 0)

\* C4: removing the last byte of a buffer that parses as a Document gives a
\* buffer on which the parse fails.
C4_TruncatedFails ==
    (res.status = "ok" /\ trunc.status # "idle") => trunc.status = "fail"

\* A truncated buffer is never accepted: the parse of it returns no Document.
TruncatedNotAccepted ==
    (res.status = "ok" /\ trunc.status # "idle") => trunc.status # "ok"

\* C5: a compound tag is returned only when an End type byte was read at its
\* own level; a compound whose buffer runs out first returns no tag.  Every
\* compound returned ends on a 0 byte that was read as a single byte and just
\* consumed, and no two compounds end on the same byte.
C5_CompoundNeedsEnd ==
    /\ \A c \in Calls :
        (c.type = RS_TAG_COMPOUND /\ c.tag # NULL) =>
            /\ c.to > c.from
            /\ c.to <= Len(input)
            /\ input[c.to] = RS_TAG_END
            /\ \E i \in 1..Len(res.st.reads) :
                res.st.reads[i] = [at |-> c.to - 1, n |-> 1]
    /\ \A i, j \in 1..Len(res.st.calls) :
        LET c == res.st.calls[i]
            d == res.st.calls[j]
        IN  (i # j /\ c.type = RS_TAG_COMPOUND /\ d.type = RS_TAG_COMPOUND
             /\ c.tag # NULL /\ d.tag # NULL) => c.to # d.to

\* a compound ran out of buffer before its End byte, and the parse failed
C5_Witness ==
    /\ res.status = "fail"
    /\ res.st.left = 0
    /\ res.st.pos = Len(input)
    /\ \E c \in Calls : c.type = RS_TAG_COMPOUND /\ c.tag = NULL /\ c.to = Len(input)
    /\ Len(input) > 4

\* C6: a Document is returned only if the root tag consumed the buffer
\* exactly; a byte left after the root tag makes the parse fail.
C6_NoTrailingData ==
    /\ (Parsed /\ res.root # NULL /\ res.st.left # 0) =>
            res.status = "fail" /\ res.doc = NoDoc
    /\ res.status = "ok" => res.st.left = 0 /\ res.st.pos = Len(input)

\* the root tag was decoded and bytes were left over
C6_Witness ==
    /\ res.status = "fail"
    /\ res.root # NULL
    /\ res.st.left > 0

\* C9: a String tag is returned only when the whole length-prefixed string
\* was read and the cursor moved past it; with fewer than 2 bytes, or fewer
\* than 2 + length, left, no tag is returned and the parse fails.
C9_StringTruncationFails ==
    \A c \in Calls :
        c.type = RS_TAG_STRING =>
            /\ (c.left < 2 \/ c.left < 2 + PrefixAt(c.from)) => c.tag = NULL
            /\ c.tag # NULL => c.to = c.from + 2 + PrefixAt(c.from)

\* The cursor accounts for the buffer at every step and every read is inside
\* the buffer.
CursorWithinBuffer ==
    /\ \A i \in 1..Len(res.st.cursor) :
        LET c == res.st.cursor[i]
        IN  c.left >= 0 /\ c.pos >= 0 /\ c.pos + c.left = res.size
    /\ \A i \in 1..Len(res.st.reads) :
        LET r == res.st.reads[i]
        IN  r.at >= 0 /\ r.at + r.n <= res.size

\* C10: at every step consumed + remaining = size with remaining >= 0, every
\* byte read is inside the buffer, and the parse ends in success or failure.
C10_SafeParse ==
    Parsed => CursorWithinBuffer /\ res.status \in {"ok", "fail"}

(***************************************************************************)
(* Properties of compounds, under SpecCompound.                            *)
(***************************************************************************)
KeysOf(h, self) == [i \in 1..Len(h[self].compound) |-> h[self].compound[i].key]

\* C1: a set on a key that is present replaces the value and moves the key
\* to the end of the iteration order; every other entry keeps its value and
\* its place relative to the others, and get returns the new value.
C1_SetMovesKeyToEnd ==
    [][op' = "replace" =>
        \A self \in Tags, key \in Keys, value \in Tags :
            ( /\ MaySet(self, value)
              /\ rs_tag_compound_get(heap, self, key) # NULL
              /\ heap' = rs_tag_compound_set(heap, self, key, value) )
            => /\ heap'[self].compound =
                    SelectSeq(heap[self].compound, LAMBDA n : n.key # key)
                    \o <<[key |-> key, value |-> value]>>
               /\ rs_tag_compound_get(heap', self, key) = value]_vars

\* a, b, c were set in that order, then b again with another value
C1_Witness ==
    /\ op = "replace"
    /\ \E self \in Tags :
        /\ IsCompound(self)
        /\ KeysOf(heap, self) = <<<<97>>, <<99>>, <<98>>>>
        /\ heap[self].compound[3].value # heap[self].compound[1].value

\* C3: no two entries of a compound have the same key.
C3_KeysUnique ==
    \A t \in Tags :
        \A i, j \in 1..Len(heap[t].compound) :
            i # j => ~strcmp_eq(heap[t].compound[i].key, heap[t].compound[j].key)

\* the parser read a key twice, and the caller then replaced an entry
C3_Witness ==
    /\ op = "replace"
    /\ input = RepeatedKeyDoc
    /\ res.status = "ok"
    /\ Len(heap[doc.root].compound) >= 2

(***************************************************************************)
(* Properties of reference counts, under Spec and SpecDoc.                 *)
(***************************************************************************)
\* one reference to t was dropped in this step
Released(t) ==
    IF heap[t].refcount = 1 THEN ~heap'[t].alive
    ELSE heap'[t].alive /\ heap'[t].refcount = heap[t].refcount - 1

\* C2: when a set replaces an entry or a delete removes one, the compound's
\* reference to the child it removed is released.
C2_RemovedChildReleased ==
    [][ /\ \A self \in Tags, key \in TwoKeys :
            ( /\ op' = "remove"
              /\ IsCompound(self)
              /\ rs_tag_compound_get(heap, self, key) # NULL
              /\ heap' = rs_tag_compound_delete(heap, self, key) )
            => Released(rs_tag_compound_get(heap, self, key))
        /\ \A self \in Tags, key \in TwoKeys, value \in Tags :
            ( /\ op' = "replace"
              /\ MaySet(self, value)
              /\ rs_tag_compound_get(heap, self, key) \notin {NULL, value}
              /\ heap' = rs_tag_compound_set(heap, self, key, value) )
            => Released(rs_tag_compound_get(heap, self, key)) ]_vars

\* C7: a tag is alive exactly while some reference to it has an owner: the
\* caller, an entry of a live compound, or the document.
C7_FreedExactlyWhenUnreferenced ==
    \A t \in Tags : heap[t].alive <=> Holders(t) > 0

\* entries pointing at t in the compounds this step frees
RECURSIVE EntriesFreed(_, _)
EntriesFreed(t, c) ==
    IF c = 0 THEN 0
    ELSE EntriesFreed(t, c - 1)
         + (IF heap[c].alive /\ ~heap'[c].alive
            THEN Cardinality({i \in 1..Len(heap[c].compound) :
                                heap[c].compound[i].value = t})
            ELSE 0)

\* C8: set_root adds one reference to the new root and drops one from the
\* old root, which is freed only if that was its last; the document then
\* points at the new root under the same name.  A root set again keeps its
\* count.  (A new root that was held by the freed old tree loses those
\* references as the tree goes.)
C8_SetRoot ==
    [][op' \in {"set_root", "same_root"} =>
        LET old == doc.root
            new == doc'.root
        IN  /\ doc'.root_name = doc.root_name
            /\ new # NULL => heap'[new].alive
            /\ (new = old /\ new # NULL) =>
                    heap'[new].refcount = heap[new].refcount
            /\ (new # old /\ old # NULL) => Released(old)
            /\ (new # old /\ new # NULL) =>
                    heap'[new].refcount =
                        heap[new].refcount + 1 - EntriesFreed(new, Len(heap))]_vars

\* the root was set to itself while the document held its only reference
C8_Witness ==
    /\ op = "same_root"
    /\ doc.root # NULL
    /\ heap[doc.root].alive
    /\ heap[doc.root].refcount = 1

====
